---- MODULE Spec2Model ----
(***************************************************************************)
(* A model of async-html-template (src/src/Template.ts, src/src/index.ts). *)
(*                                                                         *)
(* The module holds four state machines over one set of variables:         *)
(*   SpecEsc     the escaper _toHtml and the two expression outputs        *)
(*   SpecParse   the parse loop of Template._compileAsync, token by token  *)
(*   SpecRender  the generated render routine and Template.renderAsync     *)
(*   SpecFiles   Template.fromFile, the partial registry, file reads and   *)
(*               the memoized compile result                               *)
(* Each specification leaves the variables of the others at their idle     *)
(* values.                                                                 *)
(***************************************************************************)
EXTENDS Naturals, Integers, Sequences, FiniteSets, TLC

VARIABLES
    \* --- escaper
    val,        \* the value of the expression being output
    escOut,     \* the text appended for it (a sequence of characters)
    escPc       \* "start" | "marker" ({{ expr }}) | "html" (<template html>)

escVars == <<val, escOut, escPc>>

VARIABLES
    \* --- parse loop of _compileAsync
    src,        \* the template being compiled: [parts, fileName]
    ps          \* the locals of _compileAsync and how the call ended

parseVars == <<src, ps>>

VARIABLES
    \* --- one call of renderAsync on a compiled template
    rsrc,       \* the template: [parts, fileName]
    prog,       \* its compiled program (the code of the render routine)
    ropts,      \* the options of the call: "absent" | "minify" | "noMinify"
    frames,     \* the activations in progress, the running one last
    clock,      \* the number of output fragments produced so far
    loops,      \* the number of times a for/while body was repeated
    calls,      \* the mixin and partial calls made, with their contexts
    minified,   \* the invocations of the minifier, with their arguments
    result      \* the state of the promise renderAsync returned

renderVars == <<rsrc, prog, ropts, frames, clock, loops, calls, minified, result>>

VARIABLES
    \* --- template files, Template.fromFile and the compile results
    fsys,       \* the files that exist: path |-> the parts of the text
    cache,      \* _fileTemplateCache: absolute path |-> Template
    tpls,       \* the Template instances created, in order of creation
    registries, \* the partial registries created: each path |-> Template
    compiles,   \* the number of _compileAsync calls made so far
    returned,   \* what the Template.fromFile calls returned
    renders     \* the renderAsync calls made on the returned templates

fileVars == <<fsys, cache, tpls, registries, compiles, returned, renders>>

VARIABLES
    \* --- the view engine of index.ts
    isProd,     \* IS_PROD: whether NODE_ENV says production
    engine      \* the AsyncHtmlViewEngine calls made, in order

engineVars == <<isProd, engine>>

vars == <<escVars, parseVars, renderVars, fileVars, engineVars>>

\* the bounds of the model
MaxIncludes == 2
MaxLoads == 2
MaxRenders == 2
MaxEngineCalls == 2
MaxFileRenders == 1

(***************************************************************************)
(* Helpers on sequences                                                    *)
(***************************************************************************)
RECURSIVE SeqsUpTo(_, _)
SeqsUpTo(S, n) ==
    IF n = 0 THEN {<<>>}
    ELSE LET shorter == SeqsUpTo(S, n - 1)
         IN  shorter \cup {Append(s, x) : s \in {t \in shorter : Len(t) = n - 1}, x \in S}

(***************************************************************************)
(* The escaper (Template.ts:29-31) and the expression outputs              *)
(***************************************************************************)
MaxStrLen == 4

\* characters of the modelled expression values
Chars == {"&", "<", ">", "l", "t", ";"}

\* expression values: strings, and the non-string values String() spells out
Values ==
    [kind : {"string"}, s : SeqsUpTo(Chars, MaxStrLen)]
        \cup [kind : {"null", "undefined", "true", "false"}, s : {<<>>}]

\* String(v) of Template.ts:30, and the string conversion of `+=` at :153
StringOf(v) ==
    CASE v.kind = "string" -> v.s
      [] v.kind = "null" -> <<"n", "u", "l", "l">>
      [] v.kind = "undefined" -> <<"u", "n", "d", "e", "f", "i", "n", "e", "d">>
      [] v.kind = "true" -> <<"t", "r", "u", "e">>
      [] v.kind = "false" -> <<"f", "a", "l", "s", "e">>

\* s.replace(/c/g, r): every occurrence of the character c replaced by r
RECURSIVE ReplaceAll(_, _, _)
ReplaceAll(s, c, r) ==
    IF s = <<>> THEN <<>>
    ELSE (IF Head(s) = c THEN r ELSE <<Head(s)>>) \o ReplaceAll(Tail(s), c, r)

AMP == <<"&", "a", "m", "p", ";">>
LT == <<"&", "l", "t", ";">>
GT == <<"&", "g", "t", ";">>

\* a slip in the order of the passes: & escaped last
toHtmlAmpLast(v) ==
    ReplaceAll(ReplaceAll(ReplaceAll(StringOf(v), "<", LT), ">", GT), "&", AMP)

\* _toHtml: & first, then <, then >
toHtml(v) ==
    ReplaceAll(ReplaceAll(ReplaceAll(StringOf(v), "&", AMP), "<", LT), ">", GT)

\* `${_$toHtml(expr)}` in a literal segment (Template.ts:269-270)
EmitMarker ==
    /\ escPc = "start"
    /\ escOut' = toHtml(val)
    /\ escPc' = "marker"
    /\ UNCHANGED <<val, parseVars, renderVars, fileVars, engineVars>>

\* `_$out += (expr);` of the html attribute (Template.ts:152-154)
EmitHtml ==
    /\ escPc = "start"
    /\ escOut' = StringOf(val)
    /\ escPc' = "html"
    /\ UNCHANGED <<val, parseVars, renderVars, fileVars, engineVars>>

(***************************************************************************)
(* Template source as the tokenizer of Template.ts:87 splits it.            *)
(* A part is literal text, a <script ...> or </script> tag, or an opening  *)
(* or closing <template> tag; an opening tag carries its attributes in     *)
(* source order (Template.ts:131-133) and whether it ends in "/>".         *)
(***************************************************************************)
Text == [kind |-> "text"]
ScriptTag(inTemplate) == [kind |-> "script", inTemplate |-> inTemplate]
EndScript == [kind |-> "endscript"]
CloseTag == [kind |-> "close"]
Attr(n, v) == [name |-> n, val |-> v]
OpenTag(attrs, selfClosing) ==
    [kind |-> "open", attrs |-> attrs, selfClosing |-> selfClosing]

\* the spelling of the names a define attribute is given in the model
Spelling(name) ==
    CASE name = "m" -> <<"m">>
      [] name = "n" -> <<"n">>
      [] name = "k" -> <<"k">>
      [] name = "_f1" -> <<"_", "f", "1">>
      [] name = "1x" -> <<"1", "x">>
      [] name = "a-b" -> <<"a", "-", "b">>
      [] OTHER -> <<>>

Letters == {"m", "n", "k", "f", "x", "a", "b"}
Digits == {"1"}

\* /^[a-zA-Z_]\w*$/ (Template.ts:167)
IsIdentifier(name) ==
    LET w == Spelling(name)
    IN  /\ Len(w) >= 1
        /\ w[1] \in Letters \cup {"_"}
        /\ \A i \in 2..Len(w) : w[i] \in Letters \cup Digits \cup {"_"}

\* all modelled files live in one directory
Dirname(fileName) == "."

\* path.join(dir, rel) (Template.ts:217): the joined path, normalized
PathJoin(dir, rel) ==
    CASE rel = "./a" -> "a"
      [] rel = "./t.html" -> "t.html"
      [] rel = "./a.html" -> "a.html"
      [] rel = "./b" -> "b"
      [] OTHER -> rel

(***************************************************************************)
(* The generated program.  The source builds it as text (`code`); here it  *)
(* is the sequence of the fragments the source appends, one record each.   *)
(* `at` is the position of the part a fragment was generated from.         *)
(***************************************************************************)
\* context expressions
NoCtx == [k |-> "none", e |-> "", names |-> <<>>]
ExplicitCtx(e) == [k |-> "explicit", e |-> e, names |-> <<>>]
\* Object.assign({content: ""}, context)       (Template.ts:186, 235)
AssignEmptyCtx == [k |-> "assignEmpty", e |-> "", names |-> <<>>]
\* Object.assign({content: _$out}, context)    (Template.ts:197)
AssignOutCtx == [k |-> "assignOut", e |-> "", names |-> <<>>]
\* {name1, name2, ..., content: _$out}         (Template.ts:246-248)
DefinedCtx(names) == [k |-> "defined", e |-> "", names |-> names]

\* `if (!partialContext)`: undefined and the empty string are both falsy
NoContextGiven(c) == c.k = "none" \/ (c.k = "explicit" /\ c.e = "")

ILit(at) == [op |-> "lit", at |-> at]                     \* :109, :270
IScript(at) == [op |-> "script", at |-> at]               \* :106
IBegin(kind, at) == [op |-> "begin", kind |-> kind, at |-> at]   \* :150
IEnd == [op |-> "end"]                                    \* :149
IHtml(at) == [op |-> "html", at |-> at]                   \* :153
IFn(name) == [op |-> "fn", name |-> name]                 \* :170-171
IEndFn == [op |-> "endfn"]                                \* :172
ICall(n, expr, ctx, at) ==                                \* :190-192
    [op |-> "call", fn |-> n, expr |-> expr, ctx |-> ctx, at |-> at]
ICapture == [op |-> "capture"]                            \* :201, :252
IEndCall(n, expr, ctx, at) ==                             \* :202-204
    [op |-> "endcall", fn |-> n, expr |-> expr, ctx |-> ctx, at |-> at]
IInclude(path, ctx, at) ==                                \* :239-241
    [op |-> "include", path |-> path, ctx |-> ctx, at |-> at]
IEndInclude(path, ctx, at) ==                             \* :253-255
    [op |-> "endinclude", path |-> path, ctx |-> ctx, at |-> at]

(***************************************************************************)
(* The parse loop of _compileAsync (Template.ts:80-285), after the source  *)
(* text has arrived.  A parse state holds the locals of the call.          *)
(***************************************************************************)
\* the locals at Template.ts:85-90; `partials` is the registry handed in
StartParse(tpl, partials) ==
    [fileName |-> tpl.fileName, parts |-> tpl.parts, pos |-> 0,
     code |-> <<>>, nesting |-> <<>>, closeCode |-> <<>>,
     definedInner |-> <<>>, callTempVarN |-> 0,
     partials |-> partials, started |-> <<>>,
     status |-> "run", err |-> ""]

Throw(st, e) == [st EXCEPT !.status = "error", !.err = e]

\* the number of leading parts that are not a </script> tag (:99-101)
RECURSIVE ScriptLen(_)
ScriptLen(parts) ==
    IF parts = <<>> \/ Head(parts).kind = "endscript" THEN 0
    ELSE 1 + ScriptLen(Tail(parts))

\* a <script> tag: its content is read unprocessed (Template.ts:96-113)
ScriptStep(st) ==
    LET openTag == Head(st.parts)
        rest == Tail(st.parts)
        n == ScriptLen(rest)
        \* parts.shift() of the close tag, undefined at the end of input
        taken == IF n < Len(rest) THEN n + 1 ELSE n
    IN  [st EXCEPT
           !.parts = SubSeq(rest, taken + 1, Len(rest)),
           !.pos = @ + 1 + taken,
           !.code = Append(@, IF openTag.inTemplate THEN IScript(st.pos + 1)
                                                    ELSE ILit(st.pos + 1))]

\* forgetting the nesting check: a stray </template> is skipped
CloseStepNoCheck(st) ==
    IF st.nesting = <<>>
    THEN [st EXCEPT !.parts = Tail(@), !.pos = @ + 1]
    ELSE [st EXCEPT
            !.parts = Tail(@), !.pos = @ + 1,
            !.nesting = SubSeq(@, 1, Len(@) - 1),
            !.code = @ \o st.closeCode[Len(st.closeCode)],
            !.closeCode = SubSeq(@, 1, Len(@) - 1)]

\* a </template> tag (Template.ts:117-126)
CloseStep(st) ==
    IF st.nesting = <<>>
    THEN Throw(st, "unexpected-close")
    ELSE [st EXCEPT
            !.parts = Tail(@), !.pos = @ + 1,
            !.nesting = SubSeq(@, 1, Len(@) - 1),
            !.code = @ \o st.closeCode[Len(st.closeCode)],
            !.closeCode = SubSeq(@, 1, Len(@) - 1)]

\* the closing code queued behind what the tag has queued
PushCloseBehind(close, c) == Append(close, c)

\* closeCode.push(c + closeCode.pop()) (Template.ts:149, :172, :202, :253):
\* the closing code is put ahead of what the tag has queued
PushClose(close, c) == <<c>> \o close

\* the switch over one attribute (Template.ts:141-178); `a` holds the
\* locals of the tag: the code so far, the closing code queued for the tag
\* (the top of closeCode), callExpr, partialContext, partialPath
AttrStep(a, q, at) ==
    IF a.err # "" THEN a
    ELSE CASE q.name \in {"if", "for", "while"} ->
                [a EXCEPT !.close = PushClose(@, IEnd),
                          !.code = Append(@, IBegin(q.name, at))]
           [] q.name = "html" ->
                [a EXCEPT !.code = Append(@, IHtml(at))]
           [] q.name = "use" ->
                [a EXCEPT !.callExpr = q.val]
           [] q.name = "context" ->
                [a EXCEPT !.partialContext = ExplicitCtx(q.val)]
           [] q.name \in {"partial", "wrap"} ->
                [a EXCEPT !.partialPath = q.val]
           [] q.name = "define" ->
                IF ~IsIdentifier(q.val)
                THEN [a EXCEPT !.err = "invalid-name"]
                ELSE [a EXCEPT !.definedInner = Append(@, q.val),
                               !.code = Append(@, IFn(q.val)),
                               !.close = PushClose(@, IEndFn)]
           [] OTHER -> [a EXCEPT !.err = "unexpected-attribute"]

RECURSIVE AttrLoop(_, _, _)
AttrLoop(a, attrs, at) ==
    IF attrs = <<>> THEN a
    ELSE AttrLoop(AttrStep(a, Head(attrs), at), Tail(attrs), at)

\* the code for the call expression, if any (Template.ts:181-207)
AddCall(a, selfClosing, at) ==
    IF a.err # "" \/ a.callExpr = "" THEN a
    ELSE IF selfClosing
    THEN LET ctx == IF NoContextGiven(a.partialContext)
                    THEN AssignEmptyCtx ELSE a.partialContext
         IN  [a EXCEPT !.callTempVarN = @ + 1,
                       !.partialContext = ctx,
                       !.code = Append(@, ICall(a.callTempVarN, a.callExpr, ctx, at))]
    ELSE LET ctx == IF NoContextGiven(a.partialContext)
                    THEN AssignOutCtx ELSE a.partialContext
         IN  [a EXCEPT !.callTempVarN = @ + 1,
                       !.partialContext = ctx,
                       !.code = Append(@, ICapture),
                       !.close = PushClose(@, IEndCall(a.callTempVarN, a.callExpr, ctx, at))]

\* no path taken for registered
RegisteredNever(partials, fullPath) == FALSE

\* `partials[fullPath]` (Template.ts:218): the registry holds the path
Registered(partials, fullPath) == fullPath \in partials

\* the code for the inclusion of a partial, if any (Template.ts:210-258)
AddPartial(a, selfClosing, at) ==
    IF a.err # "" \/ a.partialPath = "" THEN a
    ELSE IF a.fileName = "" THEN [a EXCEPT !.err = "no-file-name"]
    ELSE LET fullPath == PathJoin(Dirname(a.fileName), a.partialPath)
             \* a new Template is registered, its read and compile started
             b == IF Registered(a.partials, fullPath) THEN a
                  ELSE [a EXCEPT !.partials = @ \cup {fullPath},
                                 !.started = Append(@, fullPath)]
         IN  IF selfClosing
             THEN LET ctx == IF NoContextGiven(b.partialContext)
                             THEN AssignEmptyCtx ELSE b.partialContext
                  IN  [b EXCEPT !.partialContext = ctx,
                                !.code = Append(@, IInclude(fullPath, ctx, at))]
             ELSE LET ctx == IF NoContextGiven(b.partialContext)
                             THEN DefinedCtx(b.definedInner) ELSE b.partialContext
                  IN  [b EXCEPT !.partialContext = ctx,
                                !.code = Append(@, ICapture),
                                !.close = PushClose(@, IEndInclude(fullPath, ctx, at))]

\* an opening <template ...> tag (Template.ts:128-265)
OpenStep(st) ==
    LET p == Head(st.parts)
        at == st.pos + 1
        a0 == [fileName |-> st.fileName, code |-> st.code, close |-> <<>>,
               callExpr |-> "", partialContext |-> NoCtx, partialPath |-> "",
               definedInner |-> st.definedInner, callTempVarN |-> st.callTempVarN,
               partials |-> st.partials, started |-> st.started, err |-> ""]
        a == AddPartial(AddCall(AttrLoop(a0, p.attrs, at), p.selfClosing, at),
                        p.selfClosing, at)
        \* what the tag has done by the time it throws stays done
        st1 == [st EXCEPT !.definedInner = a.definedInner,
                          !.callTempVarN = a.callTempVarN,
                          !.partials = a.partials,
                          !.started = a.started]
    IN  IF a.err # ""
        THEN Throw([st1 EXCEPT !.nesting = Append(@, p),
                               !.closeCode = Append(@, a.close),
                               !.code = a.code], a.err)
        ELSE IF p.selfClosing
        THEN [st1 EXCEPT !.parts = Tail(@), !.pos = at,
                         !.code = a.code \o a.close]
        ELSE [st1 EXCEPT !.parts = Tail(@), !.pos = at,
                         !.nesting = Append(@, p),
                         !.closeCode = Append(@, a.close),
                         !.code = a.code]

\* literal HTML (Template.ts:268-270)
LiteralStep(st) ==
    [st EXCEPT !.parts = Tail(@), !.pos = @ + 1,
               !.code = Append(@, ILit(st.pos + 1))]

Openers == {"begin", "fn", "capture"}
Closers == {"end", "endfn", "endcall", "endinclude"}

\* the blocks open at instruction i: the indices of their opening
\* instructions, outermost first; a closing instruction is inside its block
RECURSIVE OpenStackAt(_, _)
OpenStackAt(code, i) ==
    IF i <= 1 THEN <<>>
    ELSE LET s == OpenStackAt(code, i - 1)
             c == code[i - 1]
         IN  IF c.op \in Openers THEN Append(s, i - 1)
             ELSE IF c.op \in Closers /\ s # <<>> THEN SubSeq(s, 1, Len(s) - 1)
             ELSE s

\* the innermost block open at instruction i, 0 for the top level
BlockOf(code, i) ==
    LET s == OpenStackAt(code, i) IN IF s = <<>> THEN 0 ELSE s[Len(s)]

\* the closing instruction of the block opened at i
MatchClose(code, i) ==
    CHOOSE j \in (i + 1)..Len(code) :
        code[j].op \in Closers /\ BlockOf(code, j) = i

\* two async functions of one name declared in one block: a SyntaxError
DuplicateDeclaration(code) ==
    \E i, j \in 1..Len(code) :
        /\ i < j /\ code[i].op = "fn" /\ code[j].op = "fn"
        /\ code[i].name = code[j].name
        /\ BlockOf(code, i) = BlockOf(code, j)

\* the end of the input (Template.ts:273-284); evalOk: whether the eval of
\* the generated text at :283 accepts it, which the embedded expressions
\* and scripts decide; it never accepts a duplicate declaration
FinishStep(st, evalOk) ==
    IF st.nesting # <<>> THEN Throw(st, "expected-close")
    ELSE IF ~evalOk \/ DuplicateDeclaration(st.code) THEN Throw(st, "eval")
    ELSE [st EXCEPT !.status = "done"]

\* one round of the while loop of Template.ts:92
ParseStep(st) ==
    LET p == Head(st.parts)
    IN  CASE p.kind = "script" -> ScriptStep(st)
          [] p.kind = "close" -> CloseStep(st)
          [] p.kind = "open" -> OpenStep(st)
          [] OTHER -> LiteralStep(st)

RECURSIVE ParseAll(_, _)
ParseAll(st, evalOk) ==
    IF st.status # "run" THEN st
    ELSE IF st.parts = <<>> THEN FinishStep(st, evalOk)
    ELSE \* the state after the step, computed once
         CHOOSE r \in {ParseAll(next, evalOk) : next \in {ParseStep(st)}} : TRUE

\* the whole of _compileAsync on a source that has arrived
CompileAsync(tpl, partials, evalOk) == ParseAll(StartParse(tpl, partials), evalOk)

\* --- the parse loop, one part at a time
ParseScript ==
    /\ ps.status = "run" /\ ps.parts # <<>> /\ Head(ps.parts).kind = "script"
    /\ ps' = ScriptStep(ps)
    /\ UNCHANGED <<src, escVars, renderVars, fileVars, engineVars>>

ParseCloseTag ==
    /\ ps.status = "run" /\ ps.parts # <<>> /\ Head(ps.parts).kind = "close"
    /\ ps' = CloseStep(ps)
    /\ UNCHANGED <<src, escVars, renderVars, fileVars, engineVars>>

ParseOpenTag ==
    /\ ps.status = "run" /\ ps.parts # <<>> /\ Head(ps.parts).kind = "open"
    /\ ps' = OpenStep(ps)
    /\ UNCHANGED <<src, escVars, renderVars, fileVars, engineVars>>

ParseLiteral ==
    /\ ps.status = "run" /\ ps.parts # <<>>
    /\ Head(ps.parts).kind \in {"text", "endscript"}
    /\ ps' = LiteralStep(ps)
    /\ UNCHANGED <<src, escVars, renderVars, fileVars, engineVars>>

ParseEnd ==
    /\ ps.status = "run" /\ ps.parts = <<>>
    /\ \E evalOk \in BOOLEAN : ps' = FinishStep(ps, evalOk)
    /\ UNCHANGED <<src, escVars, renderVars, fileVars, engineVars>>

(***************************************************************************)
(* The render routine: the generated program run against a context.        *)
(* A string is the sequence of the fragments appended to it; a fragment    *)
(* records the part that produced it (at), when it was produced (t), the   *)
(* depth of the activation that produced it (lvl) and how many times the   *)
(* minifier has been applied to it (m).                                    *)
(***************************************************************************)
Frag(at, t, lvl) == [at |-> at, t |-> t, lvl |-> lvl, m |-> 0]

\* values of context properties and expressions
Str(frags) == [t |-> "str", v |-> frags, at |-> 0, env |-> <<>>]
Other(x) == [t |-> "other", v |-> x, at |-> 0, env |-> <<>>]
\* a mixin function: the define it comes from and the contexts it closes over
FnVal(at, env) == [t |-> "fn", v |-> <<>>, at |-> at, env |-> env]
Unresolved == [t |-> "unresolved", v |-> <<>>, at |-> 0, env |-> <<>>]

EmptyContext == <<>>

\* Object.assign(target, source): the properties of source win
ObjectAssign(target, source) ==
    [k \in DOMAIN target \cup DOMAIN source |->
        IF k \in DOMAIN source THEN source[k] ELSE target[k]]

\* the number of function bodies among the first k blocks of a stack
FnDepth(code, stack, k) ==
    Cardinality({n \in 1..k : code[stack[n]].op = "fn"})

\* the value of an identifier at instruction i: the async function declared
\* in the innermost enclosing block that declares one, or the property of
\* the context of the innermost enclosing `with (context)` that has one
RECURSIVE LookupFrom(_, _, _, _, _)
LookupFrom(code, name, stack, k, env) ==
    LET b == IF k = 0 THEN 0 ELSE stack[k]
        decls == {j \in 1..Len(code) :
                     code[j].op = "fn" /\ code[j].name = name /\ BlockOf(code, j) = b}
        lvl == 1 + FnDepth(code, stack, k)
        withCtx == k = 0 \/ code[b].op = "fn"
    IN  IF decls # {}
        THEN FnVal(CHOOSE j \in decls : TRUE, SubSeq(env, 1, lvl))
        ELSE IF withCtx /\ name \in DOMAIN env[lvl] THEN env[lvl][name]
        ELSE IF k = 0 THEN Unresolved
        ELSE LookupFrom(code, name, stack, k - 1, env)

Lookup(code, name, i, env) ==
    LET stack == OpenStackAt(code, i)
    IN  LookupFrom(code, name, stack, Len(stack), env)

\* the expressions a context attribute is given in the model
EvalExpr(e, context) ==
    CASE e = "{x: 1}" -> [k \in {"x"} |-> Other("1")]
      [] OTHER -> context

SeqToSet(q) == {q[i] : i \in 1..Len(q)}

\* the value of a context expression where `_$out` holds out and `context`
\* is the last of env
EvalCtx(code, c, i, out, env) ==
    LET context == env[Len(env)]
    IN  CASE c.k = "explicit" -> EvalExpr(c.e, context)
          [] c.k = "assignEmpty" ->
                ObjectAssign([k \in {"content"} |-> Str(<<>>)], context)
          [] c.k = "assignOut" ->
                ObjectAssign([k \in {"content"} |-> Str(out)], context)
          [] c.k = "defined" ->
                [k \in SeqToSet(c.names) \cup {"content"} |->
                    IF k = "content" THEN Str(out) ELSE Lookup(code, k, i, env)]

\* an identifier of {name, ..., content: _$out} that resolves to nothing
\* throws a ReferenceError
CtxThrows(code, c, i, env) ==
    /\ c.k = "defined"
    /\ \E n \in SeqToSet(c.names) \ {"content"} : Lookup(code, n, i, env) = Unresolved

\* html-minifier applied to a string
Minify(str) == [i \in 1..Len(str) |-> [str[i] EXCEPT !.m = @ + 1]]

\* `!options || options.minify !== false` (Template.ts:70)
ShouldMinify(options) == options = "absent" \/ options # "noMinify"

\* the result put ahead of the accumulator
PrependResult(lhs, v) == v \o lhs

\* `_$out += await x`: the accumulator is read before the await, the result
\* appended to what was read
AppendResult(lhs, v) == lhs \o v

MaxLoops == 1

Contexts ==
    { EmptyContext,
      [k \in {"x"} |-> Other("X")],
      [k \in {"content", "x"} |-> IF k = "x" THEN Other("X") ELSE Str(<<Frag(0, 0, 0)>>)] }

Options == {"absent", "minify", "noMinify"}

NewFrame(kind, pc, env, path, at) ==
    [kind |-> kind, pc |-> pc, out |-> <<>>, env |-> env, mode |-> "run",
     lhs |-> <<>>, ret |-> 0, path |-> path, at |-> at]

Top == frames[Len(frames)]
Depth == Len(frames)
Pop(stack) == SubSeq(stack, 1, Len(stack) - 1)
Instr == prog[Top.pc]
Running == frames # <<>> /\ Top.mode = "run"
AtInstr(ops) ==
    Running /\ Top.kind # "partial" /\ Top.pc <= Len(prog) /\ Instr.op \in ops

\* the activation on top after it has started to await a callee
Awaiting(f, mode, ret) == [f EXCEPT !.mode = mode, !.lhs = f.out, !.ret = ret]

\* the value v of a finished callee reaches the activations under it: one
\* that returns what it awaits (the capture scope of :201-205, :252-256)
\* passes it on, the next one appends it and goes on
RECURSIVE Deliver(_, _)
Deliver(stack, v) ==
    IF stack = <<>> THEN stack
    ELSE LET u == stack[Len(stack)]
         IN  IF u.mode = "return" THEN Deliver(Pop(stack), v)
             ELSE [stack EXCEPT ![Len(stack)] =
                      [u EXCEPT !.out = AppendResult(u.lhs, v),
                                !.pc = u.ret, !.mode = "run"]]

CallRecord(kind, at, ctx, captured, outer) ==
    [kind |-> kind, at |-> at, ctx |-> ctx, captured |-> captured, outer |-> outer]

\* an exception leaves the routine: the promise of renderAsync is rejected
Reject(why) ==
    /\ frames' = <<>>
    /\ result' = [state |-> "rejected", value |-> <<>>, body |-> <<>>, why |-> why]
    /\ UNCHANGED <<rsrc, prog, ropts, clock, loops, calls, minified>>

\* renderAsync(context, options) on the compiled template (Template.ts:66-68)
StartRender ==
    /\ result.state = "idle"
    /\ \E context \in Contexts, options \in Options :
          /\ frames' = <<NewFrame("main", 1, <<context>>, "", 0)>>
          /\ ropts' = options
    /\ result' = [result EXCEPT !.state = "pending"]
    /\ UNCHANGED <<rsrc, prog, clock, loops, calls, minified, escVars, parseVars, fileVars, engineVars>>

\* _$out += `...`;  and  _$out += (expr);
ExecOutput ==
    /\ AtInstr({"lit", "html"})
    /\ frames' = [frames EXCEPT ![Depth] =
                    [Top EXCEPT !.out = Append(@, Frag(Instr.at, clock, Depth)),
                                !.pc = @ + 1]]
    /\ clock' = clock + 1
    /\ UNCHANGED <<rsrc, prog, ropts, loops, calls, minified, result, escVars, parseVars, fileVars, engineVars>>

\* the statements of an in-template script, which await something
ExecScript ==
    /\ AtInstr({"script"})
    /\ frames' = [frames EXCEPT ![Depth] = [Top EXCEPT !.mode = "await"]]
    /\ UNCHANGED <<rsrc, prog, ropts, clock, loops, calls, minified, result, escVars, parseVars, fileVars, engineVars>>

\* what the script awaited completes, however late
AwaitDone ==
    /\ frames # <<>> /\ Top.mode = "await"
    /\ frames' = [frames EXCEPT ![Depth] = [Top EXCEPT !.mode = "run", !.pc = @ + 1]]
    /\ UNCHANGED <<rsrc, prog, ropts, clock, loops, calls, minified, result, escVars, parseVars, fileVars, engineVars>>

\* if (...) {   for (...) {   while (...) {  : the body is entered or not
ExecBegin ==
    /\ AtInstr({"begin"})
    /\ \E enter \in BOOLEAN :
          frames' = [frames EXCEPT ![Depth] =
                       [Top EXCEPT !.pc = IF enter THEN @ + 1
                                          ELSE MatchClose(prog, @) + 1]]
    /\ UNCHANGED <<rsrc, prog, ropts, clock, loops, calls, minified, result, escVars, parseVars, fileVars, engineVars>>

\* }  : the body of a for or while may be run again
ExecEnd ==
    /\ AtInstr({"end"})
    /\ LET begin == BlockOf(prog, Top.pc)
       IN  \E again \in BOOLEAN :
              /\ again => prog[begin].kind \in {"for", "while"} /\ loops < MaxLoops
              /\ frames' = [frames EXCEPT ![Depth] =
                              [Top EXCEPT !.pc = IF again THEN begin + 1 ELSE @ + 1]]
              /\ loops' = IF again THEN loops + 1 ELSE loops
    /\ UNCHANGED <<rsrc, prog, ropts, clock, calls, minified, result, escVars, parseVars, fileVars, engineVars>>

\* async function name(context) { ... };  : a declaration, nothing runs
ExecFn ==
    /\ AtInstr({"fn"})
    /\ frames' = [frames EXCEPT ![Depth] = [Top EXCEPT !.pc = MatchClose(prog, @) + 1]]
    /\ UNCHANGED <<rsrc, prog, ropts, clock, loops, calls, minified, result, escVars, parseVars, fileVars, engineVars>>

\* } return _$out; };  : the mixin returns its output
ExecEndFn ==
    /\ AtInstr({"endfn"})
    /\ frames' = Deliver(Pop(frames), Top.out)
    /\ UNCHANGED <<rsrc, prog, ropts, clock, loops, calls, minified, result, escVars, parseVars, fileVars, engineVars>>

\* _$out += await (async ()=>{ let _$out = "";
ExecCapture ==
    /\ AtInstr({"capture"})
    /\ frames' = Append([frames EXCEPT ![Depth] =
                            Awaiting(Top, "append", MatchClose(prog, Top.pc) + 1)],
                        NewFrame("capture", Top.pc + 1, Top.env, "", 0))
    /\ UNCHANGED <<rsrc, prog, ropts, clock, loops, calls, minified, result, escVars, parseVars, fileVars, engineVars>>

\* let f = (callExpr); _$out += (typeof f === "function") ? await f(ctx) : "";
\* and, at the end of a capture scope,
\* let f = (callExpr); return (typeof f === "function") ? await f(ctx) : "";
ExecCall ==
    /\ AtInstr({"call", "endcall"})
    /\ LET f == Lookup(prog, Instr.expr, Top.pc, Top.env)
           ctx == EvalCtx(prog, Instr.ctx, Top.pc, Top.out, Top.env)
           mode == IF Instr.op = "call" THEN "append" ELSE "return"
       IN  IF f = Unresolved THEN Reject("ReferenceError")
           ELSE /\ IF f.t = "fn"
                   THEN /\ frames' = Append([frames EXCEPT ![Depth] =
                                                Awaiting(Top, mode, Top.pc + 1)],
                                            NewFrame("fn", f.at + 1, Append(f.env, ctx), "", 0))
                        /\ calls' = Append(calls, CallRecord("mixin", Instr.at, ctx, Top.out,
                                                             Top.env[Len(Top.env)]))
                   ELSE /\ frames' = IF Instr.op = "call"
                                     THEN [frames EXCEPT ![Depth] = [Top EXCEPT !.pc = @ + 1]]
                                     ELSE Deliver(Pop(frames), <<>>)
                        /\ calls' = calls
                /\ UNCHANGED <<rsrc, prog, ropts, clock, loops, minified, result>>
    /\ UNCHANGED <<escVars, parseVars, fileVars, engineVars>>

\* _$out += await _$partials[path].renderAsync(ctx);  and, at the end of a
\* capture scope,  return await _$partials[path].renderAsync(ctx)
ExecInclude ==
    /\ AtInstr({"include", "endinclude"})
    /\ LET ctx == EvalCtx(prog, Instr.ctx, Top.pc, Top.out, Top.env)
           mode == IF Instr.op = "include" THEN "append" ELSE "return"
       IN  IF CtxThrows(prog, Instr.ctx, Top.pc, Top.env) THEN Reject("ReferenceError")
           ELSE /\ frames' = Append([frames EXCEPT ![Depth] =
                                        Awaiting(Top, mode, Top.pc + 1)],
                                    NewFrame("partial", 0, <<ctx>>, Instr.path, Instr.at))
                /\ calls' = Append(calls, CallRecord("partial", Instr.at, ctx, Top.out,
                                                     Top.env[Len(Top.env)]))
                /\ UNCHANGED <<rsrc, prog, ropts, clock, loops, minified, result>>
    /\ UNCHANGED <<escVars, parseVars, fileVars, engineVars>>

\* renderAsync of the partial, called without options (Template.ts:66-77):
\* its compile result arrives and its routine runs, however late; the
\* output is minified as the absent options say, and returned
PartialRendered ==
    /\ Running /\ Top.kind = "partial"
    /\ LET body == <<Frag(Top.at, clock, Depth)>>
           min == ShouldMinify("absent")
       IN  /\ frames' = Deliver(Pop(frames), IF min THEN Minify(body) ELSE body)
           /\ minified' = IF min THEN Append(minified, [who |-> Top.path, arg |-> body])
                          ELSE minified
    /\ clock' = clock + 1
    /\ UNCHANGED <<rsrc, prog, ropts, loops, calls, result, escVars, parseVars, fileVars, engineVars>>

\* the compile result of the partial is a failure (Template.ts:68)
PartialFailed ==
    /\ Running /\ Top.kind = "partial"
    /\ Reject("partial")
    /\ UNCHANGED <<escVars, parseVars, fileVars, engineVars>>

\* ; return _$out  of the routine, then Template.ts:70-76
FinishRender ==
    /\ Running /\ Top.kind = "main" /\ Top.pc = Len(prog) + 1
    /\ LET min == ShouldMinify(ropts)
       IN  /\ minified' = IF min THEN Append(minified, [who |-> "top", arg |-> Top.out])
                          ELSE minified
           /\ result' = [state |-> "resolved",
                         value |-> IF min THEN Minify(Top.out) ELSE Top.out,
                         body |-> Top.out, why |-> ""]
    /\ frames' = <<>>
    /\ UNCHANGED <<rsrc, prog, ropts, clock, loops, calls, escVars, parseVars, fileVars, engineVars>>

(***************************************************************************)
(* Template files: Template.fromFile (Template.ts:38-56), the constructor  *)
(* (:59-63), the first lines of renderAsync (:66-68) and the partial       *)
(* resolver inside _compileAsync (:216-231).                               *)
(*                                                                         *)
(* A Template instance: fileName (_fileName), src (the state of _srcP:     *)
(* "exists" while fs.exists is pending, "reading" while fs.readFile is,    *)
(* then "ok" or "failed"), readPath (the path given to fs.readFile), prom  *)
(* (the promise in _compiledP, 0 when unset), compiled (the state of that  *)
(* promise), starts (the _compileAsync calls made on the instance), reg    *)
(* (the registry its compilation uses), root (the top-level template whose *)
(* compilation created it) and partial (created by the partial resolver).  *)
(***************************************************************************)
\* path.resolve(fileName) (Template.ts:39)
PathResolve(fileName) == PathJoin(".", fileName)

\* `fullPath += ".html"` when nothing exists at the path (Template.ts:221)
ReadPathOf(fullPath) ==
    IF fullPath \in DOMAIN fsys THEN fullPath ELSE fullPath \o ".html"

NewTemplate(fileName, partial, root, reg) ==
    [fileName |-> fileName, partial |-> partial, root |-> root, reg |-> reg,
     src |-> IF partial THEN "exists" ELSE "reading",
     readPath |-> IF partial THEN "" ELSE fileName,
     prom |-> 0, compiled |-> "none", starts |-> 0]

\* the cache never consulted
CacheHitNever(absolutePath, ignoreCache) == FALSE

\* `_fileTemplateCache[absolutePath]` is looked up unless ignoreCache
CacheHit(absolutePath, ignoreCache) ==
    ~ignoreCache /\ absolutePath \in DOMAIN cache

\* Template.fromFile(fileName, ignoreCache)
FromFile ==
    /\ Len(returned) < MaxLoads
    /\ \E fileName \in {"t.html", "./t.html"}, ignoreCache \in BOOLEAN :
          LET absolutePath == PathResolve(fileName)
              id == Len(tpls) + 1
          IN  IF CacheHit(absolutePath, ignoreCache)
              THEN /\ returned' = Append(returned,
                        [path |-> absolutePath, ignoreCache |-> ignoreCache,
                         tpl |-> cache[absolutePath]])
                   /\ UNCHANGED <<tpls, cache>>
              ELSE /\ tpls' = Append(tpls, NewTemplate(absolutePath, FALSE, id, 0))
                   /\ cache' = IF ignoreCache THEN cache
                               ELSE [k \in DOMAIN cache \cup {absolutePath} |->
                                        IF k = absolutePath THEN id ELSE cache[k]]
                   /\ returned' = Append(returned,
                        [path |-> absolutePath, ignoreCache |-> ignoreCache, tpl |-> id])
    /\ UNCHANGED <<fsys, registries, compiles, renders, escVars, parseVars, renderVars, engineVars>>

\* the callback of fs.exists for a partial (Template.ts:220-222)
PartialExists ==
    /\ \E id \in 1..Len(tpls) :
          /\ tpls[id].src = "exists"
          /\ tpls' = [tpls EXCEPT ![id] =
                        [@ EXCEPT !.src = "reading",
                                   !.readPath = ReadPathOf(tpls[id].fileName)]]
    /\ UNCHANGED <<fsys, cache, registries, compiles, returned, renders,
                   escVars, parseVars, renderVars, engineVars>>

\* the callback of fs.readFile (Template.ts:47-50, 222-225)
ReadDone ==
    /\ \E id \in 1..Len(tpls) :
          /\ tpls[id].src = "reading"
          /\ tpls' = [tpls EXCEPT ![id] =
                        [@ EXCEPT !.src = IF tpls[id].readPath \in DOMAIN fsys
                                          THEN "ok" ELSE "failed"]]
    /\ UNCHANGED <<fsys, cache, registries, compiles, returned, renders,
                   escVars, parseVars, renderVars, engineVars>>

\* the memo never consulted
NeedsCompileAlways(t) == TRUE

\* `!this._compiledP` (Template.ts:67)
NeedsCompile(t) == t.prom = 0

\* renderAsync on a template fromFile returned, up to its first await: the
\* compilation is started unless one was (Template.ts:67), with a registry
\* of its own (the default `partials = {}` of :80)
RenderAsync ==
    /\ Len(renders) < MaxRenders
    /\ \E n \in 1..Len(returned) :
          LET id == returned[n].tpl
              t == tpls[id]
          IN  IF NeedsCompile(t)
              THEN /\ tpls' = [tpls EXCEPT ![id] =
                                 [t EXCEPT !.prom = compiles + 1, !.compiled = "pending",
                                           !.starts = @ + 1,
                                           !.reg = Len(registries) + 1]]
                   /\ registries' = Append(registries, <<>>)
                   /\ compiles' = compiles + 1
                   /\ renders' = Append(renders,
                         [tpl |-> id, prom |-> compiles + 1, state |-> "awaiting"])
              ELSE /\ renders' = Append(renders,
                         [tpl |-> id, prom |-> t.prom, state |-> "awaiting"])
                   /\ UNCHANGED <<tpls, registries, compiles>>
    /\ UNCHANGED <<fsys, cache, returned, escVars, parseVars, renderVars, engineVars>>

\* the partial compiled with the default registry, a new one
PartialRegistryFresh(parentReg, fresh) == fresh

\* the registry the compilation of a partial is given (Template.ts:230)
PartialRegistry(parentReg, fresh) == parentReg

\* the Template instances the partial resolver creates for the paths
\* `started` (Template.ts:228-230): each is compiled at once
RECURSIVE NewPartials(_, _, _, _, _)
NewPartials(started, root, parentReg, nregs, ncompiles) ==
    IF started = <<>> THEN <<>>
    ELSE LET reg == PartialRegistry(parentReg, nregs + 1)
             t == [NewTemplate(Head(started), TRUE, root, reg) EXCEPT
                      !.prom = ncompiles + 1, !.compiled = "pending", !.starts = 1]
         IN  <<t>> \o NewPartials(Tail(started), root, parentReg,
                                  IF reg = parentReg THEN nregs ELSE nregs + 1,
                                  ncompiles + 1)

\* _compileAsync after `await this._srcP` (Template.ts:86-285): a failed
\* read fails the compilation; otherwise the text is parsed in one go, and
\* the partials it names that the registry does not hold are created,
\* registered and compiled
CompileResume ==
    /\ \E id \in 1..Len(tpls) :
          LET t == tpls[id]
          IN  /\ t.compiled = "pending" /\ t.src \in {"ok", "failed"}
              /\ IF t.src = "failed"
                 THEN /\ tpls' = [tpls EXCEPT ![id] = [t EXCEPT !.compiled = "failed"]]
                      /\ UNCHANGED <<registries, compiles>>
                 ELSE \E st \in {CompileAsync([parts |-> fsys[t.readPath],
                                                   fileName |-> t.fileName],
                                                  DOMAIN registries[t.reg], TRUE)} :
                      LET registry == registries[t.reg]
                          new == NewPartials(st.started, t.root, t.reg,
                                             Len(registries), compiles)
                          regs1 == [registries EXCEPT ![t.reg] =
                                      [k \in st.partials |->
                                          IF k \in DOMAIN registry THEN registry[k]
                                          ELSE Len(tpls) + CHOOSE n \in 1..Len(st.started) :
                                                                st.started[n] = k]]
                          fresh == {new[n].reg : n \in 1..Len(new)} \ (1..Len(registries))
                      IN  /\ tpls' = [tpls EXCEPT ![id] =
                                        [t EXCEPT !.compiled =
                                            IF st.status = "done" THEN "ok" ELSE "failed"]]
                                     \o new
                          /\ registries' = regs1 \o [n \in 1..Cardinality(fresh) |-> <<>>]
                          /\ compiles' = compiles + Len(new)
    /\ UNCHANGED <<fsys, cache, returned, renders, escVars, parseVars, renderVars, engineVars>>

\* `await this._compiledP` of a render (Template.ts:68): the routine is
\* run, or the failure of the compilation is the failure of the render
RenderResume ==
    /\ \E n \in 1..Len(renders) :
          LET r == renders[n]
              t == tpls[r.tpl]
          IN  /\ r.state = "awaiting"
              /\ t.compiled \in {"ok", "failed"}
              /\ renders' = [renders EXCEPT ![n] =
                               [r EXCEPT !.state = IF t.compiled = "ok"
                                                   THEN "run" ELSE "failed"]]
    /\ UNCHANGED <<fsys, cache, tpls, registries, compiles, returned,
                   escVars, parseVars, renderVars, engineVars>>

(***************************************************************************)
(* The view engine: AsyncHtmlViewEngine (index.ts:11-15).  A call is       *)
(* Template.fromFile(fileName, !IS_PROD).renderAsync(options), with a      *)
(* handler for the fulfilment of that promise and, chained on the promise  *)
(* of that handler, a handler for a rejection.  A call record: render (the *)
(* renderAsync call it made), cb (what the callback does when invoked),    *)
(* pc (where the promise chain stands) and invoked (the invocations of the *)
(* callback so far, "result" for callback(undefined, result) and "error"   *)
(* for callback(err)).                                                     *)
(***************************************************************************)
\* what a callback may do when it is invoked
Callbacks == {"returns", "throws"}

\* Template.fromFile(fileName, !IS_PROD).renderAsync(...) up to the first
\* await of renderAsync (index.ts:12, :19): fromFile, and the start of the
\* compilation unless one was started
LoadAndRender(fileName) ==
    LET absolutePath == PathResolve(fileName)
        ignoreCache == ~isProd
        hit == CacheHit(absolutePath, ignoreCache)
        id == IF hit THEN cache[absolutePath] ELSE Len(tpls) + 1
        t == IF hit THEN tpls[id] ELSE NewTemplate(absolutePath, FALSE, id, 0)
        tpls1 == IF hit THEN tpls ELSE Append(tpls, t)
        start == NeedsCompile(t)
    IN  /\ cache' = IF hit \/ ignoreCache THEN cache
                    ELSE [k \in DOMAIN cache \cup {absolutePath} |->
                             IF k = absolutePath THEN id ELSE cache[k]]
        /\ returned' = Append(returned,
              [path |-> absolutePath, ignoreCache |-> ignoreCache, tpl |-> id])
        /\ tpls' = IF start
                   THEN [tpls1 EXCEPT ![id] =
                           [t EXCEPT !.prom = compiles + 1, !.compiled = "pending",
                                     !.starts = t.starts + 1,
                                     !.reg = Len(registries) + 1]]
                   ELSE tpls1
        /\ registries' = IF start THEN Append(registries, <<>>) ELSE registries
        /\ compiles' = IF start THEN compiles + 1 ELSE compiles
        /\ renders' = Append(renders,
              [tpl |-> id, prom |-> IF start THEN compiles + 1 ELSE t.prom,
               state |-> "awaiting"])

\* AsyncHtmlViewEngine(fileName, options, callback): the render is started
\* and the two handlers attached
EngineCall ==
    /\ Len(engine) < MaxEngineCalls
    /\ \E fileName \in {"t.html", "./t.html"}, cb \in Callbacks :
          /\ LoadAndRender(fileName)
          /\ engine' = Append(engine,
                [render |-> Len(renders) + 1, cb |-> cb, pc |-> "pending",
                 invoked |-> <<>>])
    /\ UNCHANGED <<fsys, isProd, escVars, parseVars, renderVars>>

\* renderFileAsync(fileName, context) (index.ts:18-20) up to its first await
RenderFile ==
    /\ Len(renders) < MaxFileRenders
    /\ \E fileName \in {"t.html", "./t.html"} : LoadAndRender(fileName)
    /\ UNCHANGED <<fsys, engineVars, escVars, parseVars, renderVars>>

\* the promise of renderAsync settles: rejected when the compilation
\* failed, and fulfilled or rejected by the routine when it ran
EngineSettled ==
    /\ \E n \in 1..Len(engine) :
          LET r == renders[engine[n].render]
          IN  /\ engine[n].pc = "pending"
              /\ r.state \in {"run", "failed"}
              /\ \E fulfilled \in BOOLEAN :
                    /\ fulfilled => r.state = "run"
                    /\ engine' = [engine EXCEPT ![n].pc =
                                     IF fulfilled THEN "then" ELSE "catch"]
    /\ UNCHANGED <<isProd, fileVars, escVars, parseVars, renderVars>>

\* .then(result => { callback(undefined, result) }) (index.ts:13): what the
\* callback throws rejects the promise the rejection handler is chained on
EngineThen ==
    /\ \E n \in 1..Len(engine) :
          /\ engine[n].pc = "then"
          /\ engine' = [engine EXCEPT ![n] =
                          [@ EXCEPT !.invoked = Append(@, "result"),
                                    !.pc = IF engine[n].cb = "throws"
                                           THEN "catch" ELSE "done"]]
    /\ UNCHANGED <<isProd, fileVars, escVars, parseVars, renderVars>>

\* .catch(err => { callback(err) }) (index.ts:14): what the callback throws
\* here is left unhandled
EngineCatch ==
    /\ \E n \in 1..Len(engine) :
          /\ engine[n].pc = "catch"
          /\ engine' = [engine EXCEPT ![n] =
                          [@ EXCEPT !.invoked = Append(@, "error"),
                                    !.pc = IF engine[n].cb = "throws"
                                           THEN "unhandled" ELSE "done"]]
    /\ UNCHANGED <<isProd, fileVars, escVars, parseVars, renderVars>>

(***************************************************************************)
(* The specifications                                                      *)
(***************************************************************************)
MaxParts == 4

\* the parts the parse loop is run on
ParseAlphabet ==
    { Text, ScriptTag(FALSE), EndScript, CloseTag,
      OpenTag(<<Attr("if", "c")>>, FALSE),
      OpenTag(<<Attr("define", "m")>>, FALSE),
      OpenTag(<<Attr("define", "1x")>>, FALSE),
      OpenTag(<<Attr("partial", "a")>>, TRUE),
      OpenTag(<<Attr("bogus", "v")>>, FALSE),
      OpenTag(<<Attr("use", "m"), Attr("if", "c")>>, FALSE),
      OpenTag(<<Attr("if", "c"), Attr("use", "m"), Attr("partial", "a")>>, FALSE),
      OpenTag(<<Attr("for", "c"), Attr("html", "x")>>, TRUE) }

EscIdle == val = [kind |-> "null", s |-> <<>>] /\ escOut = <<>> /\ escPc = "idle"

ParseIdle ==
    /\ src = [parts |-> <<>>, fileName |-> ""]
    /\ ps = [StartParse(src, {}) EXCEPT !.status = "idle"]

RenderIdle ==
    /\ rsrc = [parts |-> <<>>, fileName |-> ""]
    /\ prog = <<>> /\ ropts = "absent" /\ frames = <<>>
    /\ clock = 0 /\ loops = 0 /\ calls = <<>> /\ minified = <<>>
    /\ result = [state |-> "none", value |-> <<>>, body |-> <<>>, why |-> ""]

FilesIdle ==
    /\ fsys = <<>> /\ cache = <<>> /\ tpls = <<>> /\ registries = <<>>
    /\ compiles = 0 /\ returned = <<>> /\ renders = <<>>

EngineIdle == isProd = FALSE /\ engine = <<>>

InitEsc ==
    /\ val \in Values /\ escOut = <<>> /\ escPc = "start"
    /\ ParseIdle /\ RenderIdle /\ FilesIdle /\ EngineIdle

NextEsc == EmitMarker \/ EmitHtml

SpecEsc == InitEsc /\ [][NextEsc]_vars

InitParse ==
    /\ src \in [parts : SeqsUpTo(ParseAlphabet, MaxParts), fileName : {"", "t.html"}]
    /\ ps = StartParse(src, {})
    /\ EscIdle /\ RenderIdle /\ FilesIdle /\ EngineIdle

NextParse == ParseScript \/ ParseCloseTag \/ ParseOpenTag \/ ParseLiteral \/ ParseEnd

SpecParse == InitParse /\ [][NextParse]_vars

MaxBlocks == 3

\* the pieces the rendered templates are put together from
RenderBlocks ==
    { <<Text>>,
      <<ScriptTag(TRUE), Text, EndScript>>,
      <<OpenTag(<<Attr("for", "c")>>, FALSE), Text, CloseTag>>,
      <<OpenTag(<<Attr("define", "m")>>, FALSE), Text,
        OpenTag(<<Attr("html", "content")>>, TRUE), CloseTag>>,
      <<OpenTag(<<Attr("use", "m")>>, TRUE)>>,
      <<OpenTag(<<Attr("use", "m")>>, FALSE), Text, CloseTag>>,
      <<OpenTag(<<Attr("partial", "a")>>, TRUE)>>,
      <<OpenTag(<<Attr("wrap", "a")>>, FALSE), Text, CloseTag>>,
      <<OpenTag(<<Attr("use", "m"), Attr("wrap", "a")>>, FALSE), Text, CloseTag>>,
      <<OpenTag(<<Attr("use", "m"), Attr("context", "{x: 1}")>>, FALSE), Text, CloseTag>>,
      <<OpenTag(<<Attr("define", "n")>>, FALSE),
        OpenTag(<<Attr("use", "m")>>, FALSE), Text, CloseTag, CloseTag>>,
      <<OpenTag(<<Attr("use", "n")>>, TRUE)>>,
      <<OpenTag(<<Attr("if", "c"), Attr("define", "k")>>, FALSE), Text, CloseTag>> }

\* partial and wrap attribute values the template files use
Inc(rel) == OpenTag(<<Attr("partial", rel)>>, TRUE)

FileAlphabet == {Inc("a"), Inc("a.html"), Inc("gone"), CloseTag}

\* the file systems: t.html may be missing; a.html refers to nothing or
\* back to t.html
FileSystems ==
    { [f \in {"t.html", "a.html"} |-> IF f = "t.html" THEN top ELSE a] :
          top \in SeqsUpTo(FileAlphabet, MaxIncludes),
          a \in {<<Text>>, <<Inc("t.html")>>} }
      \cup { [f \in {"a.html"} |-> <<Text>>] }

InitFiles ==
    /\ fsys \in FileSystems
    /\ cache = <<>> /\ tpls = <<>> /\ registries = <<>>
    /\ compiles = 0 /\ returned = <<>> /\ renders = <<>>
    /\ EscIdle /\ ParseIdle /\ RenderIdle /\ EngineIdle

NextFiles ==
    \/ FromFile \/ ReadDone \/ PartialExists \/ RenderAsync \/ CompileResume
    \/ RenderResume

SpecFiles == InitFiles /\ [][NextFiles]_vars

\* the files the view engine is asked for: t.html names a partial that is
\* there, one that is not, is unbalanced, or is missing
EngineFileSystems ==
    { [f \in {"t.html", "a.html"} |-> IF f = "t.html" THEN top ELSE <<Text>>] :
          top \in {<<Text>>, <<Inc("a")>>, <<Inc("gone")>>, <<CloseTag>>} }
      \cup { [f \in {"a.html"} |-> <<Text>>] }

InitEngine ==
    /\ fsys \in EngineFileSystems
    /\ isProd \in BOOLEAN
    /\ engine = <<>>
    /\ cache = <<>> /\ tpls = <<>> /\ registries = <<>>
    /\ compiles = 0 /\ returned = <<>> /\ renders = <<>>
    /\ EscIdle /\ ParseIdle /\ RenderIdle

NextEngine ==
    \/ EngineCall \/ ReadDone \/ PartialExists \/ CompileResume \/ RenderResume
    \/ EngineSettled \/ EngineThen \/ EngineCatch

SpecEngine == InitEngine /\ [][NextEngine]_vars

\* file systems whose partials name one another in a cycle: a.html names
\* itself (under either spelling), b.html, or t.html; b.html names a.html,
\* or itself and t.html
CyclicFileSystems ==
    { [f \in {"t.html", "a.html", "b.html"} |->
          IF f = "t.html" THEN top ELSE IF f = "a.html" THEN a ELSE b] :
          top \in {<<Inc("a")>>, <<Inc("a"), Inc("b")>>},
          a \in {<<Inc("a")>>, <<Inc("a.html")>>, <<Inc("b")>>, <<Inc("t.html")>>},
          b \in {<<Inc("a")>>, <<Inc("b"), Inc("t.html")>>} }

InitCycles ==
    /\ fsys \in CyclicFileSystems
    /\ cache = <<>> /\ tpls = <<>> /\ registries = <<>>
    /\ compiles = 0 /\ returned = <<>> /\ renders = <<>>
    /\ isProd \in BOOLEAN /\ engine = <<>>
    /\ EscIdle /\ ParseIdle /\ RenderIdle

NextCycles ==
    \/ RenderFile \/ ReadDone \/ PartialExists \/ CompileResume \/ RenderResume

\* the callbacks of fs and the continuations of the promises are run by
\* the event loop: none waits for ever
SpecCycles ==
    /\ InitCycles /\ [][NextCycles]_vars
    /\ WF_vars(PartialExists) /\ WF_vars(ReadDone)
    /\ WF_vars(CompileResume) /\ WF_vars(RenderResume)

RECURSIVE Flatten(_)
Flatten(blocks) ==
    IF blocks = <<>> THEN <<>> ELSE Head(blocks) \o Flatten(Tail(blocks))

RenderTemplates ==
    {[parts |-> Flatten(b), fileName |-> "t.html"] : b \in SeqsUpTo(RenderBlocks, MaxBlocks)}

InitRender ==
    /\ rsrc \in RenderTemplates
    /\ CompileAsync(rsrc, {}, TRUE).status = "done"
    /\ prog = CompileAsync(rsrc, {}, TRUE).code
    /\ ropts = "absent" /\ frames = <<>>
    /\ clock = 1 /\ loops = 0 /\ calls = <<>> /\ minified = <<>>
    /\ result = [state |-> "idle", value |-> <<>>, body |-> <<>>, why |-> ""]
    /\ EscIdle /\ ParseIdle /\ FilesIdle /\ EngineIdle

NextRender ==
    \/ StartRender \/ ExecOutput \/ ExecScript \/ AwaitDone \/ ExecBegin \/ ExecEnd
    \/ ExecFn \/ ExecEndFn \/ ExecCapture \/ ExecCall \/ ExecInclude
    \/ PartialRendered \/ PartialFailed \/ FinishRender

SpecRender == InitRender /\ [][NextRender]_vars

(***************************************************************************)
(* The claims                                                              *)
(***************************************************************************)
\* --- C2 ----------------------------------------------------------------
\* the <template> tags of a part sequence are properly paired; the parts
\* between a <script> tag and the next </script> are script content
RECURSIVE BalancedFrom(_, _, _)
BalancedFrom(parts, depth, inScript) ==
    IF parts = <<>> THEN depth = 0
    ELSE LET p == Head(parts)
         IN  IF inScript
             THEN BalancedFrom(Tail(parts), depth, p.kind # "endscript")
             ELSE CASE p.kind = "script" -> BalancedFrom(Tail(parts), depth, TRUE)
                    [] p.kind = "open" ->
                         BalancedFrom(Tail(parts),
                                      IF p.selfClosing THEN depth ELSE depth + 1, FALSE)
                    [] p.kind = "close" ->
                         depth > 0 /\ BalancedFrom(Tail(parts), depth - 1, FALSE)
                    [] OTHER -> BalancedFrom(Tail(parts), depth, FALSE)

Balanced(parts) == BalancedFrom(parts, 0, FALSE)

RecognizedAttributes ==
    {"if", "for", "while", "html", "use", "context", "partial", "wrap", "define"}

OnlyRecognized(parts) ==
    \A i \in 1..Len(parts) : parts[i].kind = "open" =>
        \A j \in 1..Len(parts[i].attrs) : parts[i].attrs[j].name \in RecognizedAttributes

\* the attribute values the parser itself checks
ValidValues(tpl) ==
    \A i \in 1..Len(tpl.parts) : tpl.parts[i].kind = "open" =>
        \A j \in 1..Len(tpl.parts[i].attrs) :
            LET q == tpl.parts[i].attrs[j]
            IN  /\ q.name = "define" => IsIdentifier(q.val)
                /\ (q.name \in {"partial", "wrap"} /\ q.val # "") => tpl.fileName # ""

ParseOver == ps.status \in {"done", "error"}

\* C2 as stated: with only recognized attributes on its tags, the compilation
\* succeeds exactly when the tags are balanced.  (A program the eval at the
\* end rejects is left out of the statement.)
C2_Original ==
    (ParseOver /\ OnlyRecognized(src.parts) /\ ps.err # "eval") =>
        (ps.status = "done" <=> Balanced(src.parts))

\* C2 amended: with only recognized attributes whose values the parser
\* accepts (define names are identifiers, partial/wrap only in a template
\* with a file name) and a generated program the eval accepts, the
\* compilation succeeds exactly when the tags outside script content are
\* balanced; on success the nesting stack is empty, and an unbalanced input
\* ends in an error.
C2_BalancedIffCompiles ==
    (ParseOver /\ OnlyRecognized(src.parts) /\ ValidValues(src) /\ ps.err # "eval") =>
        /\ ps.status = "done" <=> Balanced(src.parts)
        /\ ps.status = "done" => ps.nesting = <<>> /\ ps.closeCode = <<>>
        /\ ps.status = "error" =>
              ps.err \in {"unexpected-close", "expected-close"}

\* two nested, properly closed tags have compiled
C2_Witness ==
    /\ ps.status = "done"
    /\ Len(src.parts) = 4
    /\ src.parts[1].kind = "open" /\ ~src.parts[1].selfClosing
    /\ src.parts[2].kind = "open" /\ ~src.parts[2].selfClosing
    /\ src.parts[3].kind = "close" /\ src.parts[4].kind = "close"

\* --- C1 ----------------------------------------------------------------
\* the fragments of a string were produced one after the other
StampsIncrease(str) == \A i \in 1..(Len(str) - 1) : str[i].t < str[i + 1].t

\* the fragments an activation at depth lvl appended itself stand in the
\* order of the parts they come from
DocumentOrder(str, lvl) ==
    \A i, j \in 1..Len(str) :
        (i < j /\ str[i].lvl = lvl /\ str[j].lvl = lvl) => str[i].at < str[j].at

\* the last instruction of the program, when it is an output of the top level
EndsWithOutput ==
    /\ prog # <<>>
    /\ prog[Len(prog)].op \in {"lit", "html"}

\* C1: within one renderAsync call, whatever the delays of the steps it
\* awaits, every accumulator holds its fragments in the order they were
\* produced, and (no loop body repeated) in document order; the promise
\* resolves only when no activation is left, with the top-level accumulator
\* (minified or not) as its value, the output of the last instruction last.
C1_ProgramOrder ==
    /\ \A k \in 1..Len(frames) :
          /\ StampsIncrease(frames[k].out)
          /\ loops = 0 => DocumentOrder(frames[k].out, k)
    /\ result.state = "resolved" =>
          /\ frames = <<>>
          /\ StampsIncrease(result.body)
          /\ loops = 0 => DocumentOrder(result.body, 1)
          /\ result.value \in {result.body, Minify(result.body)}
          /\ EndsWithOutput =>
                /\ result.body # <<>>
                /\ result.body[Len(result.body)].at = prog[Len(prog)].at

\* a render has resolved whose output holds, between two fragments of the
\* top level, the result of a call that was awaited
C1_Witness ==
    /\ result.state = "resolved"
    /\ \E i, j, k \in 1..Len(result.body) :
          /\ i < j /\ j < k
          /\ result.body[i].lvl = 1 /\ result.body[j].lvl > 1 /\ result.body[k].lvl = 1

\* --- C7 ----------------------------------------------------------------
\* C7: one top-level renderAsync call invokes the minifier exactly once, on
\* the fully rendered top-level string, unless options.minify is false, and
\* then not at all.
C7_MinifiedOnce ==
    result.state = "resolved" =>
        IF ropts = "noMinify" THEN minified = <<>>
        ELSE /\ Len(minified) = 1
             /\ minified[1].who = "top" /\ minified[1].arg = result.body

\* --- C8 ----------------------------------------------------------------
HasAttr(p, names) == \E j \in 1..Len(p.attrs) : p.attrs[j].name \in names

\* C8: a non-self-closing use tag without a context attribute calls the
\* mixin with a context whose content is the output captured from the
\* tag's inner content and whose other properties are those of the
\* surrounding context.
C8_ContentIsCaptured ==
    \A i \in 1..Len(calls) :
        LET c == calls[i]
            p == rsrc.parts[c.at]
        IN  (c.kind = "mixin" /\ ~p.selfClosing /\ ~HasAttr(p, {"context"})) =>
                /\ DOMAIN c.ctx = DOMAIN c.outer \cup {"content"}
                /\ c.ctx["content"] = Str(c.captured)
                /\ \A k \in DOMAIN c.outer \ {"content"} : c.ctx[k] = c.outer[k]

\* --- C9 ----------------------------------------------------------------
\* the names the define attributes of the parts up to position at give
DefinedUpTo(parts, at) ==
    UNION {{parts[i].attrs[j].val :
               j \in {n \in 1..Len(parts[i].attrs) : parts[i].attrs[n].name = "define"}} :
           i \in {n \in 1..at : parts[n].kind = "open"}}

\* C9: a non-self-closing partial/wrap tag without a context attribute
\* passes exactly the mixin names defined so far plus content (the captured
\* inner output) and no other property of the surrounding context; a
\* self-closing one passes all properties of the surrounding context
\* together with content.
C9_PartialContext ==
    \A i \in 1..Len(calls) :
        LET c == calls[i]
            p == rsrc.parts[c.at]
        IN  (c.kind = "partial" /\ ~HasAttr(p, {"context"})) =>
                IF p.selfClosing
                THEN /\ DOMAIN c.ctx = DOMAIN c.outer \cup {"content"}
                     /\ \A k \in DOMAIN c.outer \ {"content"} : c.ctx[k] = c.outer[k]
                ELSE /\ DOMAIN c.ctx = DefinedUpTo(rsrc.parts, c.at) \cup {"content"}
                     /\ c.ctx["content"] = Str(c.captured)

\* --- C10 ---------------------------------------------------------------
\* reading an escaped text back: each entity stands for its character
RECURSIVE Unescape(_)
Unescape(s) ==
    IF s = <<>> THEN <<>>
    ELSE IF Len(s) >= 5 /\ SubSeq(s, 1, 5) = AMP THEN <<"&">> \o Unescape(SubSeq(s, 6, Len(s)))
    ELSE IF Len(s) >= 4 /\ SubSeq(s, 1, 4) = LT THEN <<"<">> \o Unescape(SubSeq(s, 5, Len(s)))
    ELSE IF Len(s) >= 4 /\ SubSeq(s, 1, 4) = GT THEN <<">">> \o Unescape(SubSeq(s, 5, Len(s)))
    ELSE <<Head(s)>> \o Unescape(Tail(s))

StartsEntity(s, i) ==
    \/ i + 4 <= Len(s) /\ SubSeq(s, i, i + 4) = AMP
    \/ i + 3 <= Len(s) /\ SubSeq(s, i, i + 3) = LT
    \/ i + 3 <= Len(s) /\ SubSeq(s, i, i + 3) = GT

\* C10: the text appended for a {{ expr }} marker holds no < or >, every &
\* in it starts one of &amp; &lt; &gt;, and it reads back as the stringified
\* value; the text appended by <template html> is the stringified value
\* itself.
C10_EscapedVsRaw ==
    /\ escPc = "marker" =>
          /\ \A i \in 1..Len(escOut) : escOut[i] \notin {"<", ">"}
          /\ \A i \in 1..Len(escOut) : escOut[i] = "&" => StartsEntity(escOut, i)
          /\ Unescape(escOut) = StringOf(val)
    /\ escPc = "html" => escOut = StringOf(val)

\* a value holding all three special characters has gone through the marker
C10_Witness ==
    /\ escPc = "marker"
    /\ val.kind = "string"
    /\ {"&", "<", ">"} \subseteq {val.s[i] : i \in 1..Len(val.s)}
    /\ escOut # StringOf(val)

\* --- C3 ----------------------------------------------------------------
Partials == {id \in 1..Len(tpls) : tpls[id].partial}

TopLevel == {id \in 1..Len(tpls) : ~tpls[id].partial}

\* the partials created in the compilation of the top-level template `root`
PartialsOf(root) == {id \in Partials : tpls[id].root = root}

\* the compilations share nothing: every partial uses the registry of the
\* compilation that created it, and no two compilations use one registry
SharedRegistry ==
    /\ \A id \in Partials : tpls[id].reg = tpls[tpls[id].root].reg
    /\ \A t1, t2 \in TopLevel :
          (t1 # t2 /\ tpls[t1].reg # 0) => tpls[t1].reg # tpls[t2].reg

\* C3 as stated: within one top-level compilation no file is read by two
\* partials.
C3_Original ==
    \A root \in TopLevel : \A p1, p2 \in PartialsOf(root) :
        (p1 # p2 /\ tpls[p1].readPath # "") => tpls[p1].readPath # tpls[p2].readPath

\* C3: within one top-level compilation, a given partial path (the path of
\* the tag joined to the directory of the referencing file, before any
\* default extension is tried) is resolved and read at most once, however
\* many tags and templates of the compilation name it: the registry holds
\* one Template per path, all of them share that one registry, and no
\* other compilation uses it.
C3_OncePerPath ==
    /\ \A root \in TopLevel : \A p1, p2 \in PartialsOf(root) :
          p1 # p2 => tpls[p1].fileName # tpls[p2].fileName
    /\ SharedRegistry
    /\ \A g \in 1..Len(registries) : \A k \in DOMAIN registries[g] :
          LET id == registries[g][k]
          IN  id \in Partials /\ tpls[id].fileName = k /\ tpls[id].reg = g

\* a compilation is over in which two tags named one path, and the path
\* was read once, by one partial
C3_Witness ==
    \E root \in TopLevel :
        /\ tpls[root].compiled = "ok"
        /\ fsys[tpls[root].readPath] = <<Inc("a"), Inc("a")>>
        /\ \E p \in PartialsOf(root) :
              tpls[p].fileName = "a" /\ tpls[p].compiled = "ok"

\* --- C4 ----------------------------------------------------------------
\* C4: when the file of a partial cannot be read, the compilation of the
\* top-level template that refers to it does not succeed.
C4_UnreadablePartialFailsCompile ==
    \A p \in Partials :
        tpls[p].src = "failed" => tpls[tpls[p].root].compiled # "ok"

\* --- C5 ----------------------------------------------------------------
\* the Template.fromFile calls for `path` that did not bypass the cache
CachedCalls(path) ==
    {n \in 1..Len(returned) : returned[n].path = path /\ ~returned[n].ignoreCache}

\* C5: the Template.fromFile calls for one absolute path that do not bypass
\* the cache all return one Template instance, also when they are made
\* before the file has been read, and between them the file is read once.
C5_OneInstanceOneRead ==
    \A path \in {returned[n].path : n \in 1..Len(returned)} :
        LET made == {returned[n].tpl : n \in CachedCalls(path)}
        IN  CachedCalls(path) # {} =>
              /\ Cardinality(made) = 1
              /\ Cardinality({id \in TopLevel :
                                 id \in made /\ tpls[id].readPath = path}) = 1
              /\ path \in DOMAIN cache /\ cache[path] \in made

\* two calls that kept the cache were made before the file was read
C5_Witness ==
    /\ Cardinality(CachedCalls("t.html")) = 2
    /\ \E id \in TopLevel : tpls[id].src = "reading"

\* --- C6 ----------------------------------------------------------------
\* C6: whatever renderAsync calls are made on a Template, overlapping or
\* not, _compileAsync is started at most once on it, and every render
\* awaits the one promise the instance keeps.
C6_CompiledOnce ==
    /\ \A id \in 1..Len(tpls) : tpls[id].starts <= 1
    /\ \A n \in 1..Len(renders) : renders[n].prom = tpls[renders[n].tpl].prom
    /\ \A n, m \in 1..Len(renders) :
          renders[n].tpl = renders[m].tpl => renders[n].prom = renders[m].prom

\* two renders of one Template await its compilation, which is not over
C6_Witness ==
    \E n, m \in 1..Len(renders) :
        /\ n # m /\ renders[n].tpl = renders[m].tpl
        /\ renders[n].state = "awaiting" /\ renders[m].state = "awaiting"
        /\ tpls[renders[n].tpl].compiled = "pending"

\* --- C11 ---------------------------------------------------------------
\* C11: a call of AsyncHtmlViewEngine invokes its callback at most once at
\* any time, and exactly once by the time its promise chain has run out,
\* whatever the callback does.
C11_CallbackOnce ==
    \A n \in 1..Len(engine) :
        /\ Len(engine[n].invoked) <= 1
        /\ engine[n].pc \in {"done", "unhandled"} => Len(engine[n].invoked) = 1

\* --- C12 ---------------------------------------------------------------
\* the paths the partial and wrap tags of the files of a file system name
PartPaths(f, part) ==
    IF part.kind # "open" THEN {}
    ELSE { PathJoin(Dirname(f), part.attrs[j].val) :
             j \in {j \in 1..Len(part.attrs) :
                       part.attrs[j].name \in {"partial", "wrap"}} }

PathsNamed(fs) ==
    UNION { UNION { PartPaths(f, fs[f][i]) : i \in 1..Len(fs[f]) } : f \in DOMAIN fs }

\* no compilation that was started is still to settle
AllSettled == \A id \in 1..Len(tpls) : tpls[id].compiled \in {"none", "ok", "failed"}

\* a compilation creates at most one partial, and starts at most one read,
\* for each path named in the files
InstancesBounded ==
    \A root \in TopLevel :
        /\ Cardinality(PartialsOf(root)) <= Cardinality(PathsNamed(fsys))
        /\ \A p \in PartialsOf(root) : tpls[p].fileName \in PathsNamed(fsys)

\* C12: when the partials of a file template name one another in a cycle,
\* the compilation creates finitely many partial Template instances (one
\* read each), and in the end every compile result, the top-level one
\* included, has settled for good.
C12_CyclesTerminate ==
    /\ []InstancesBounded
    /\ <>[]AllSettled

\* a compilation is over, all its partials compiled, one of which names
\* its own path
C12_Witness ==
    \E root \in TopLevel :
        /\ tpls[root].compiled = "ok"
        /\ \A p \in PartialsOf(root) : tpls[p].compiled = "ok"
        /\ \E p \in PartialsOf(root) :
              tpls[p].fileName \in PathsNamed([f \in {tpls[p].readPath} |-> fsys[f]])

\* --- C13 ---------------------------------------------------------------
\* the closing fragment an opening fragment needs
ClosesWith(open, close) ==
    CASE open.op = "begin" -> close.op = "end"
      [] open.op = "fn" -> close.op = "endfn"
      [] open.op = "capture" -> close.op \in {"endcall", "endinclude"}
      [] OTHER -> FALSE

Reverse(q) == [i \in 1..Len(q) |-> q[Len(q) + 1 - i]]

RECURSIVE Concat(_)
Concat(qs) == IF qs = <<>> THEN <<>> ELSE Head(qs) \o Concat(Tail(qs))

Ops(q) == [i \in 1..Len(q) |-> q[i].op]

\* the closing fragment of what an attribute of a tag opens, "" when the
\* attribute opens nothing
CloserOfAttr(p, q) ==
    CASE q.name \in {"if", "for", "while"} -> "end"
      [] q.name = "define" -> "endfn"
      [] q.name = "use" /\ ~p.selfClosing -> "endcall"
      [] q.name \in {"partial", "wrap"} /\ ~p.selfClosing /\ q.val # "" -> "endinclude"
      [] OTHER -> ""

\* the closing fragments of a tag, in the order of the attributes that
\* open something
ClosersInAttributeOrder(p) ==
    LET all == [j \in 1..Len(p.attrs) |-> CloserOfAttr(p, p.attrs[j])]
    IN  SelectSeq(all, LAMBDA c : c # "")

\* the closing fragments of a tag, in the order its fragments are opened:
\* if/for/while and define as the attributes stand, then the capture scope
\* of a use, then the capture scope of a partial or wrap
ClosersInOpeningOrder(p) ==
    LET all == ClosersInAttributeOrder(p)
    IN  SelectSeq(all, LAMBDA c : c \in {"end", "endfn"})
          \o SelectSeq(all, LAMBDA c : c = "endcall")
          \o SelectSeq(all, LAMBDA c : c = "endinclude")

\* C13 as stated: the closing fragments queued for every open tag are those
\* of its attributes, the fragment of a later attribute ahead of the
\* fragment of an earlier one.
C13_Original ==
    ps.status # "error" =>
        \A k \in 1..Len(ps.nesting) :
            Ops(ps.closeCode[k]) = Reverse(ClosersInAttributeOrder(ps.nesting[k]))

\* C13: at every point of parsing the closing fragments are in
\* last-opened-first-closed order: every closing fragment in the code closes
\* the innermost fragment open there; the fragments still open have exactly
\* one closing fragment each queued, innermost first, on the stack entry of
\* their tag (none is queued for a self-closing tag); and within one tag a
\* fragment opened later is closed earlier, the fragments being opened as
\* the if/for/while and define attributes stand, then for use, then for
\* partial or wrap, whatever the place of these two among the attributes.
C13_LastOpenedFirstClosed ==
    /\ \A j \in 1..Len(ps.code) :
          ps.code[j].op \in Closers =>
              /\ BlockOf(ps.code, j) # 0
              /\ ClosesWith(ps.code[BlockOf(ps.code, j)], ps.code[j])
    /\ ps.status # "error" =>
          /\ Len(ps.closeCode) = Len(ps.nesting)
          /\ \A k \in 1..Len(ps.nesting) :
                Ops(ps.closeCode[k]) = Reverse(ClosersInOpeningOrder(ps.nesting[k]))
          /\ LET open == Reverse(OpenStackAt(ps.code, Len(ps.code) + 1))
                 queued == Concat(Reverse(ps.closeCode))
             IN  /\ Len(open) = Len(queued)
                 /\ \A n \in 1..Len(open) : ClosesWith(ps.code[open[n]], queued[n])
    /\ ps.status = "done" =>
          Cardinality({j \in 1..Len(ps.code) : ps.code[j].op \in Openers})
            = Cardinality({j \in 1..Len(ps.code) : ps.code[j].op \in Closers})

\* a tag that opens three fragments has been closed inside a define
C13_Witness ==
    /\ ps.status = "done"
    /\ Len(src.parts) = 4
    /\ src.parts[1].kind = "open" /\ HasAttr(src.parts[1], {"define"})
    /\ src.parts[2].kind = "open"
    /\ Len(ClosersInOpeningOrder(src.parts[2])) = 3
    /\ Cardinality({j \in 1..Len(ps.code) : ps.code[j].op \in Closers}) = 4

\* --- C14 ---------------------------------------------------------------
\* the function `name` is declared in a block that is open at instruction j
VisibleAt(code, name, j) ==
    \E i \in 1..Len(code) :
        /\ code[i].op = "fn" /\ code[i].name = name
        /\ BlockOf(code, i) \in {0} \cup SeqToSet(OpenStackAt(code, j))

\* C14: every mixin name in the default context of a non-self-closing
\* partial/wrap tag without a context attribute is declared by a define tag
\* whose enclosing scopes are all open where the context is built.
C14_ExportedNamesVisible ==
    \A j \in 1..Len(prog) :
        (prog[j].op = "endinclude" /\ prog[j].ctx.k = "defined") =>
            \A name \in SeqToSet(prog[j].ctx.names) : VisibleAt(prog, name, j)
====
